---- MODULE Spec2Model ----
(* Model of OrbitalSatelliteTracker: tle_fetcher.py (catalog download and   *)
(* grouping), propagate.py (epoch conversion and the SGP4 call).              *)
(* Text is a sequence of one-character strings.  Instants are whole minutes  *)
(* counted from 1900-01-01 00:00.                                            *)
EXTENDS Integers, Sequences, FiniteSets, TLC

VARIABLES
  served,      \* text the catalog endpoint answers with
  loaded,      \* modules whose body has run (sys.modules)
  requests,    \* number of HTTP GETs issued so far
  r,           \* tle_fetcher.r : the response kept at module level
  fpc,         \* position of the fetch_tle call
  fetchCalls,  \* number of fetch_tle calls started
  lines, i, s, tle,   \* locals of fetch_tle
  fresult,     \* what the last fetch_tle call gave its caller
  recs,        \* the SatelliteTLE objects callers share, by object id
  lib,         \* the installed sgp4 library (fixed for a run)
  pc,          \* position of each caller inside propagate
  loc,         \* locals of each caller's propagate frame
  log,         \* finished propagate calls: arguments and outcome
  ncalls       \* number of propagate calls started

fvars == <<served, loaded, requests, r, fpc, fetchCalls, lines, i, s, tle, fresult>>

pvars == <<recs, lib, pc, loc, log, ncalls>>

vars == <<fvars, pvars>>

MaxLines == 6
MaxCalls == 2
MaxSeed == 1
Threads == {1, 2}
Objects == {1, 2}
MaxFetchCalls == 2

NoValue == "none"
NL == "\n"

(* ---------------- text helpers (str methods) ---------------- *)

IsSpace(c) == c \in {" ", "\t"}

RECURSIVE lstrip(_)
lstrip(str) ==
  IF str # <<>> /\ IsSpace(Head(str)) THEN lstrip(Tail(str)) ELSE str

RECURSIVE rstrip(_)
rstrip(str) ==
  IF str # <<>> /\ IsSpace(str[Len(str)])
  THEN rstrip(SubSeq(str, 1, Len(str) - 1)) ELSE str

strip_left_only(str) == lstrip(str)

strip(str) == rstrip(lstrip(str))

RECURSIVE splitlines(_)
splitlines(text) ==
  IF text = <<>> THEN <<>>
  ELSE LET brk == {k \in 1..Len(text) : text[k] = NL} IN
       IF brk = {} THEN <<text>>
       ELSE LET k == CHOOSE k \in brk : \A j \in brk : k <= j IN
            <<SubSeq(text, 1, k - 1)>> \o splitlines(SubSeq(text, k + 1, Len(text)))

RECURSIVE Join(_)
Join(ls) ==
  IF ls = <<>> THEN <<>>
  ELSE IF Len(ls) = 1 THEN ls[1]
  ELSE ls[1] \o <<NL>> \o Join(Tail(ls))

(* ---------------- catalog texts the endpoint may serve ---------------- *)

LineSet == { <<"A">>, <<" ", "A", "\t">>, <<"B", " ">>, <<>> }

CatalogTexts ==
  { Join(ls) \o e : ls \in UNION { [1..n -> LineSet] : n \in 0..MaxLines },
                    e \in { <<>>, <<NL>> } }

(* ---------------- tle_fetcher.py ---------------- *)

SatelliteTLE(name, line1, line2) == [name |-> name, line1 |-> line1, line2 |-> line2]

DictSet(d, k, v) == [x \in (DOMAIN d) \cup {k} |-> IF x = k THEN v ELSE d[x]]

DictSetDefault(d, k, v) == IF k \in DOMAIN d THEN d ELSE DictSet(d, k, v)

EmptyDict == [x \in {} |-> NoValue]

NoResult == [kind |-> "none", value |-> EmptyDict]

\* module body of tle_fetcher: r = requests.get(...)
RunTleFetcherBody ==
  /\ requests' = requests + 1
  /\ r' = served

ImportTleFetcher ==
  /\ "tle_fetcher" \notin loaded
  /\ RunTleFetcherBody
  /\ loaded' = loaded \cup {"tle_fetcher"}
  /\ UNCHANGED <<served, fpc, fetchCalls, lines, i, s, tle, fresult>>
  /\ UNCHANGED pvars

\* module body of propagate: "from tle_fetcher import SatelliteTLE, fetch_tle"
ImportPropagate ==
  /\ "propagate" \notin loaded
  /\ IF "tle_fetcher" \in loaded
     THEN UNCHANGED <<requests, r>>
     ELSE RunTleFetcherBody
  /\ loaded' = loaded \cup {"tle_fetcher", "propagate"}
  /\ UNCHANGED <<served, fpc, fetchCalls, lines, i, s, tle, fresult>>
  /\ UNCHANGED pvars

FetchCall ==
  /\ "tle_fetcher" \in loaded
  /\ fpc \in {"idle", "returned", "raised"}
  /\ fetchCalls < MaxFetchCalls
  /\ fetchCalls' = fetchCalls + 1
  /\ lines' = splitlines(r)
  /\ IF Len(lines') % 3 # 0
     THEN /\ fpc' = "raised"
          /\ fresult' = [kind |-> "ValueError", value |-> EmptyDict]
          /\ UNCHANGED <<i, s, tle>>
     ELSE /\ fpc' = "loop"
          /\ tle' = EmptyDict
          /\ i' = 0
          /\ fresult' = NoResult
          /\ UNCHANGED s
  /\ UNCHANGED <<served, loaded, requests, r>>
  /\ UNCHANGED pvars

FetchIterKeepFirst ==
  /\ fpc = "loop"
  /\ i < Len(lines)
  /\ LET name == strip(lines[i + 1])
         line1 == lines[i + 2]
         line2 == lines[i + 3]
     IN /\ s' = SatelliteTLE(name, line1, line2)
        /\ tle' = DictSetDefault(tle, name, s')
  /\ i' = i + 3
  /\ UNCHANGED <<served, loaded, requests, r, fpc, fetchCalls, lines, fresult>>
  /\ UNCHANGED pvars

\* one pass of "for i in range(0, len(lines), 3)" (lines is 1-based here)
FetchIter ==
  /\ fpc = "loop"
  /\ i < Len(lines)
  /\ LET name == strip(lines[i + 1])
         line1 == lines[i + 2]
         line2 == lines[i + 3]
     IN /\ s' = SatelliteTLE(name, line1, line2)
        /\ tle' = DictSet(tle, name, s')
  /\ i' = i + 3
  /\ UNCHANGED <<served, loaded, requests, r, fpc, fetchCalls, lines, fresult>>
  /\ UNCHANGED pvars

FetchReturn ==
  /\ fpc = "loop"
  /\ i >= Len(lines)
  /\ fpc' = "returned"
  /\ fresult' = [kind |-> "return", value |-> tle]
  /\ UNCHANGED <<served, loaded, requests, r, fetchCalls, lines, i, s, tle>>
  /\ UNCHANGED pvars

(* ---------------- propagate.py : numbers and dates ---------------- *)

Digits == {"0","1","2","3","4","5","6","7","8","9"}

DigitVal(c) == CHOOSE n \in 0..9 : <<"0","1","2","3","4","5","6","7","8","9">>[n + 1] = c

RECURSIVE Num(_)
Num(ds) == IF ds = <<>> THEN 0 ELSE 10 * Num(SubSeq(ds, 1, Len(ds) - 1)) + DigitVal(ds[Len(ds)])

\* str[a:b] with Python's clamping of the bounds
slice(str, a, b) == SubSeq(str, a + 1, IF b < Len(str) THEN b ELSE Len(str))

\* float(str) for unsigned decimal text: a value whole + frac8 / 10^8, or a failure
float(str) ==
  LET t    == strip(str)
      dots == {k \in 1..Len(t) : t[k] = "."}
      ok   == /\ \A k \in 1..Len(t) : t[k] \in Digits \cup {"."}
              /\ Cardinality(dots) <= 1
              /\ \E k \in 1..Len(t) : t[k] \in Digits
      d    == IF dots = {} THEN Len(t) + 1 ELSE CHOOSE k \in dots : TRUE
      fr   == SubSeq(t, d + 1, Len(t)) \o <<"0","0","0","0","0","0","0","0">>
  IN IF ok
     THEN [ok |-> TRUE, whole |-> Num(SubSeq(t, 1, d - 1)), frac8 |-> Num(SubSeq(fr, 1, 8))]
     ELSE [ok |-> FALSE, whole |-> 0, frac8 |-> 0]

IsLeap(y) == (y % 4 = 0 /\ y % 100 # 0) \/ y % 400 = 0

LeapsBefore(y) == (y - 1) \div 4 - (y - 1) \div 100 + (y - 1) \div 400

\* days from 1900-01-01 to 1 January of year y
DaysBeforeYear(y) == 365 * (y - 1900) + LeapsBefore(y) - LeapsBefore(1900)

\* datetime(year, 1, 1)
datetime(year) == DaysBeforeYear(year) * 1440

\* timedelta(days=whole + frac8/10^8), in whole minutes
timedelta_days(whole, frac8) == whole * 1440 + ((frac8 \div 625) * 9) \div 1000

timedelta_minutes(m) == m

MonthLen(y, m) ==
  IF m = 2 THEN (IF IsLeap(y) THEN 29 ELSE 28)
  ELSE IF m \in {4, 6, 9, 11} THEN 30 ELSE 31

RECURSIVE DaysBeforeMonth(_, _)
DaysBeforeMonth(y, m) == IF m = 1 THEN 0 ELSE DaysBeforeMonth(y, m - 1) + MonthLen(y, m - 1)

\* dt.year, dt.month, dt.day, dt.hour, dt.minute of a datetime
Year(dt) ==
  LET d == dt \div 1440 IN
  CHOOSE y \in (1900 + d \div 366)..(1900 + d \div 365) :
    DaysBeforeYear(y) <= d /\ d < DaysBeforeYear(y + 1)

Month(dt) ==
  LET y == Year(dt)
      d == dt \div 1440 - DaysBeforeYear(y)
  IN CHOOSE m \in 1..12 : DaysBeforeMonth(y, m) <= d /\ d < DaysBeforeMonth(y, m) + MonthLen(y, m)

Day(dt) == dt \div 1440 - DaysBeforeYear(Year(dt)) - DaysBeforeMonth(Year(dt), Month(dt)) + 1

Hour(dt) == (dt % 1440) \div 60

Minute(dt) == dt % 60

\* sgp4.api.jday: <<2 * jd, fr in minutes of the day>> (jd always ends in .5)
jday(year, mon, day, hr, minute) ==
  << 2 * (367 * year - (7 * (year + (mon + 9) \div 12)) \div 4 + (275 * mon) \div 9 + day)
       + 3442027,
     minute + hr * 60 >>

EpochYear(year_short) == 2000 + year_short

\* locals of tle_epoch_to_datetime for an epoch value
tle_epoch_to_datetime(epoch) ==
  LET year_short  == epoch.whole \div 1000
      day_whole   == epoch.whole % 1000
      year        == EpochYear(year_short)
      base        == datetime(year)
  IN [year_short |-> year_short, year |-> year,
      dt |-> base + timedelta_days(day_whole, epoch.frac8)]

datetime_to_jday(dt) == jday(Year(dt), Month(dt), Day(dt), Hour(dt), Minute(dt))

(* ---------------- the sgp4 library, as far as propagate sees it ---------------- *)

\* TLE checksum digit: digits count their value, "-" counts 1, modulo 10
RECURSIVE DigitSum(_)
DigitSum(str) ==
  IF str = <<>> THEN 0
  ELSE DigitSum(Tail(str))
       + (IF Head(str) \in Digits THEN DigitVal(Head(str))
          ELSE IF Head(str) = "-" THEN 1 ELSE 0)

Checksum(str) == DigitSum(str) % 10

ChecksumChar(str) == <<"0","1","2","3","4","5","6","7","8","9">>[Checksum(str) + 1]

NaN3 == <<"nan", "nan", "nan">>

\* Satrec.twoline2rv: the library keeps what it decoded from the two lines;
\* a strict build refuses lines that are too short
twoline2rv(l, line1, line2) ==
  IF l.strict /\ (Len(line1) < 69 \/ Len(line2) < 69)
  THEN [ok |-> FALSE, line1 |-> <<>>, line2 |-> <<>>]
  ELSE [ok |-> TRUE, line1 |-> line1, line2 |-> line2]

\* satrec.sgp4(jd, fr): some fixed function of the element set and the instant
sgp4(l, satrec, jd2, fr) ==
  LET h == (l.seed + DigitSum(satrec.line1) + DigitSum(satrec.line2) + jd2 + fr) % 12
      e == IF h < 6 THEN 0 ELSE h - 5
  IN IF e = 0
     THEN [error_code |-> 0, position |-> <<h, fr % 7, jd2 % 5>>, velocity |-> <<h + 1, fr % 3, jd2 % 3>>]
     ELSE [error_code |-> e, position |-> NaN3, velocity |-> NaN3]

(* ---------------- satellite records handed to propagate ---------------- *)

L1Head == <<"1"," ","2","5","5","4","4","U"," ","9","8","0","6","7","A"," "," "," ">>
L1Tail == <<" "," ",".","0","0","0","1","6","7","1","7"," "," ","0","0","0","0","0","-","0"," "," ","1","0","2","7","0","-","3"," ","0"," "," ","9","0","0">>
Line2Good == <<"2"," ","2","5","5","4","4"," "," ","5","1",".","6","4","0","0"," ","2","0","8",".","9","1","6","3"," ","0","0","0","6","3","1","7"," "," ","6","9",".","9","8","6","2"," "," ","2","5",".","2","9","0","6"," ","1","5",".","4","9","5","6","0","5","3","2"," "," "," "," ","1","9">>

Line1Of(epochField) ==
  LET body == L1Head \o epochField \o L1Tail IN body \o <<ChecksumChar(body)>>

EpochFields == {
  <<"2","4","0","0","1",".","0","0","0","0","0","0","0","0">>,
  <<"2","4","0","0","1",".","5","0","0","0","0","0","0","0">>,
  <<"5","7","0","6","0",".","0","0","0","0","0","0","0","0">>,
  <<"9","9","3","6","5",".","2","5","0","0","0","0","0","0">> }

Line1Default == Line1Of(<<"2","4","0","0","1",".","5","0","0","0","0","0","0","0">>)

Line1Good == { Line1Of(e) : e \in EpochFields }

Line1WrongChecksum == L1Head \o <<"2","4","0","0","1",".","5","0","0","0","0","0","0","0">> \o L1Tail \o <<"0">>
Line1TooLong == Line1Of(<<"2","4","0","0","1",".","0","0","0","0","0","0","0","0">>) \o <<" ">>
Line1TooShort == SubSeq(Line1Of(<<"2","4","0","0","1",".","5","0","0","0","0","0","0","0">>), 1, 30)
Line1BadEpoch == Line1Of(<<"2","4","0","0","I",".","5","0","0","0","0","0","0","0">>)

SatSet ==
  { SatelliteTLE(<<"I","S","S">>, l1, Line2Good) :
      l1 \in Line1Good \cup {Line1WrongChecksum, Line1TooLong, Line1TooShort, Line1BadEpoch} }

TsinceSet == {-1440, 0, 90}

(* ---------------- propagate.py : propagate, one caller per thread ---------------- *)

NoEpoch == [ok |-> FALSE, whole |-> 0, frac8 |-> 0]

NoOutcome == [kind |-> "none", value |-> <<>>]

LocInit ==
  [sat |-> 1, tsince_minutes |-> 0,
   extract_epoch |-> NoEpoch,
   ep |-> [year_short |-> 0, year |-> 0, dt |-> 0],
   dt_tsince |-> 0,
   jday_tsince |-> <<0, 0>>,
   satrec |-> [ok |-> FALSE, line1 |-> <<>>, line2 |-> <<>>],
   res |-> [error_code |-> -1, position |-> NaN3, velocity |-> NaN3],
   outcome |-> NoOutcome]

LogEntry(t, outcome, code) ==
  [line1 |-> recs[loc[t].sat].line1, line2 |-> recs[loc[t].sat].line2,
   tsince_minutes |-> loc[t].tsince_minutes, outcome |-> outcome, code |-> code]

\* the call leaves propagate: by return or by an exception
Leave(t, outcome, code) ==
  /\ pc' = [pc EXCEPT ![t] = "done"]
  /\ log' = log \cup {LogEntry(t, outcome, code)}

\* propagate(sat, tsince_minutes) is called with a shared record
Call(t, o, ts) ==
  /\ pc[t] \in {"idle", "done"}
  /\ ncalls < MaxCalls
  /\ ncalls' = ncalls + 1
  /\ loc' = [loc EXCEPT ![t] = [LocInit EXCEPT !.sat = o, !.tsince_minutes = ts]]
  /\ pc' = [pc EXCEPT ![t] = "epoch"]
  /\ UNCHANGED <<recs, lib, log>>
  /\ UNCHANGED fvars

\* extract_epoch = float(sat.line1[18:32]); dt_epoch = tle_epoch_to_datetime(extract_epoch)
StepEpoch(t) ==
  /\ pc[t] = "epoch"
  /\ LET extract_epoch == float(slice(recs[loc[t].sat].line1, 18, 32)) IN
     IF extract_epoch.ok
     THEN /\ loc' = [loc EXCEPT ![t].extract_epoch = extract_epoch,
                                ![t].ep = tle_epoch_to_datetime(extract_epoch)]
          /\ pc' = [pc EXCEPT ![t] = "target"]
          /\ UNCHANGED log
     ELSE LET o == [kind |-> "ValueError", value |-> <<"could not convert string to float", 0>>] IN
          /\ loc' = [loc EXCEPT ![t].outcome = o]
          /\ Leave(t, o, -1)
  /\ UNCHANGED <<recs, lib, ncalls>>
  /\ UNCHANGED fvars

StepTargetClock(t) ==
  /\ pc[t] = "target"
  /\ LET dt_tsince == loc[t].ep.dt + timedelta_minutes(loc[t].tsince_minutes) + ncalls IN
     loc' = [loc EXCEPT ![t].dt_tsince = dt_tsince,
                        ![t].jday_tsince = datetime_to_jday(dt_tsince)]
  /\ pc' = [pc EXCEPT ![t] = "satrec"]
  /\ UNCHANGED <<recs, lib, log, ncalls>>
  /\ UNCHANGED fvars

StepTargetShared(t) ==
  /\ pc[t] = "target"
  /\ LET dt_tsince == loc[t].ep.dt + timedelta_minutes(loc[t].tsince_minutes) IN
     loc' = [u \in Threads |->
               IF u = t
               THEN [loc[u] EXCEPT !.dt_tsince = dt_tsince,
                                   !.jday_tsince = datetime_to_jday(dt_tsince)]
               ELSE [loc[u] EXCEPT !.jday_tsince = datetime_to_jday(dt_tsince)]]
  /\ pc' = [pc EXCEPT ![t] = "satrec"]
  /\ UNCHANGED <<recs, lib, log, ncalls>>
  /\ UNCHANGED fvars

\* dt_tsince = dt_epoch + timedelta(minutes=tsince_minutes); jday_tsince = datetime_to_jday(dt_tsince)
StepTarget(t) ==
  /\ pc[t] = "target"
  /\ LET dt_tsince == loc[t].ep.dt + timedelta_minutes(loc[t].tsince_minutes) IN
     loc' = [loc EXCEPT ![t].dt_tsince = dt_tsince,
                        ![t].jday_tsince = datetime_to_jday(dt_tsince)]
  /\ pc' = [pc EXCEPT ![t] = "satrec"]
  /\ UNCHANGED <<recs, lib, log, ncalls>>
  /\ UNCHANGED fvars

\* satrec = Satrec.twoline2rv(sat.line1, sat.line2)
StepSatrec(t) ==
  /\ pc[t] = "satrec"
  /\ LET satrec == twoline2rv(lib, recs[loc[t].sat].line1, recs[loc[t].sat].line2) IN
     IF satrec.ok
     THEN /\ loc' = [loc EXCEPT ![t].satrec = satrec]
          /\ pc' = [pc EXCEPT ![t] = "sgp4"]
          /\ UNCHANGED log
     ELSE LET o == [kind |-> "ValueError", value |-> <<"TLE format error", 0>>] IN
          /\ loc' = [loc EXCEPT ![t].outcome = o]
          /\ Leave(t, o, -1)
  /\ UNCHANGED <<recs, lib, ncalls>>
  /\ UNCHANGED fvars

\* error_code, position, velocity = satrec.sgp4(jday_tsince[0], jday_tsince[1])
StepSgp4(t) ==
  /\ pc[t] = "sgp4"
  /\ loc' = [loc EXCEPT ![t].res =
               sgp4(lib, loc[t].satrec, loc[t].jday_tsince[1], loc[t].jday_tsince[2])]
  /\ pc' = [pc EXCEPT ![t] = "check"]
  /\ UNCHANGED <<recs, lib, log, ncalls>>
  /\ UNCHANGED fvars

StepResultDefaultState(t) ==
  /\ pc[t] = "check"
  /\ LET o == [kind |-> "return", value |-> <<loc[t].res.position, loc[t].res.velocity>>] IN
     /\ loc' = [loc EXCEPT ![t].outcome = o]
     /\ Leave(t, o, loc[t].res.error_code)
  /\ UNCHANGED <<recs, lib, ncalls>>
  /\ UNCHANGED fvars

\* if error_code != 0: raise ValueError(f"Error code: {error_code}"); return position, velocity
StepResult(t) ==
  /\ pc[t] = "check"
  /\ LET o == IF loc[t].res.error_code # 0
              THEN [kind |-> "ValueError", value |-> <<"Error code: ", loc[t].res.error_code>>]
              ELSE [kind |-> "return", value |-> <<loc[t].res.position, loc[t].res.velocity>>] IN
     /\ loc' = [loc EXCEPT ![t].outcome = o]
     /\ Leave(t, o, loc[t].res.error_code)
  /\ UNCHANGED <<recs, lib, ncalls>>
  /\ UNCHANGED fvars

\* propagate run from entry to exit by a single caller
PropagateAlone(l, sat, tsince_minutes) ==
  LET extract_epoch == float(slice(sat.line1, 18, 32)) IN
  IF ~extract_epoch.ok
  THEN [kind |-> "ValueError", value |-> <<"could not convert string to float", 0>>]
  ELSE LET dt_epoch    == tle_epoch_to_datetime(extract_epoch).dt
           dt_tsince   == dt_epoch + timedelta_minutes(tsince_minutes)
           jday_tsince == datetime_to_jday(dt_tsince)
           satrec      == twoline2rv(l, sat.line1, sat.line2)
       IN IF ~satrec.ok
          THEN [kind |-> "ValueError", value |-> <<"TLE format error", 0>>]
          ELSE LET res == sgp4(l, satrec, jday_tsince[1], jday_tsince[2]) IN
               IF res.error_code # 0
               THEN [kind |-> "ValueError", value |-> <<"Error code: ", res.error_code>>]
               ELSE [kind |-> "return", value |-> <<res.position, res.velocity>>]

(* ---------------- specifications ---------------- *)

FetchIdle ==
  /\ loaded = {}
  /\ requests = 0
  /\ r = NoValue
  /\ fpc = "idle"
  /\ fetchCalls = 0
  /\ lines = <<>>
  /\ i = 0
  /\ s = NoValue
  /\ tle = EmptyDict
  /\ fresult = NoResult

PropIdle ==
  /\ pc = [t \in Threads |-> "idle"]
  /\ loc = [t \in Threads |-> LocInit]
  /\ log = {}
  /\ ncalls = 0

\* the interpreter starts; the endpoint may answer with any catalog text
FetchInit ==
  /\ served \in CatalogTexts
  /\ FetchIdle
  /\ recs = [o \in Objects |-> SatelliteTLE(<<"I","S","S">>, Line1Default, Line2Good)]
  /\ lib = [seed |-> 0, strict |-> FALSE]
  /\ PropIdle

FetchNext ==
  \/ ImportTleFetcher
  \/ ImportPropagate
  \/ FetchCall
  \/ FetchIter
  \/ FetchReturn

SpecFetch == FetchInit /\ [][FetchNext]_vars

\* callers hold records of any content; the library is any fixed build
PropInit ==
  /\ served = <<>>
  /\ FetchIdle
  /\ recs \in [Objects -> SatSet]
  /\ recs[2] = SatelliteTLE(<<"I","S","S">>, Line1Default, Line2Good)
  /\ lib \in [seed : 0..MaxSeed, strict : BOOLEAN]
  /\ PropIdle

PropNext ==
  \/ \E t \in Threads, o \in Objects, ts \in TsinceSet : Call(t, o, ts)
  \/ \E t \in Threads : StepEpoch(t)
  \/ \E t \in Threads : StepTarget(t)
  \/ \E t \in Threads : StepSatrec(t)
  \/ \E t \in Threads : StepSgp4(t)
  \/ \E t \in Threads : StepResult(t)

SpecProp == PropInit /\ [][PropNext]_vars

(* ---------------- properties ---------------- *)

\* the instant a (2*jd, fr) pair denotes, in minutes from 1900-01-01 00:00 (JD 2415020.5)
InstantOf(j) == ((j[1] - 4830041) \div 2) * 1440 + j[2]

JdayRoundTrip ==
  \A t \in Threads :
    pc[t] \in {"satrec", "sgp4", "check"} => InstantOf(loc[t].jday_tsince) = loc[t].dt_tsince

Past(t, places) == pc[t] \in places

\* two-digit year by the TLE convention
ConventionYear(yy) == IF yy < 57 THEN 2000 + yy ELSE 1900 + yy

\* epoch instant by the TLE convention: day-of-year 1.0 is 1 January 00:00
ConventionEpoch(e) ==
  datetime(ConventionYear(e.whole \div 1000)) + timedelta_days((e.whole % 1000) - 1, e.frac8)

\* C1: the instant handed to the propagator is the TLE's own epoch (day 1.0 =
\* 1 January 00:00) plus tsince_minutes, and tle_epoch_to_datetime returns
\* that epoch instant.
C1_InstantIsEpochPlusTsince ==
  \A t \in Threads :
    Past(t, {"satrec", "sgp4", "check"}) =>
      /\ loc[t].ep.dt = ConventionEpoch(loc[t].extract_epoch)
      /\ InstantOf(loc[t].jday_tsince)
           = ConventionEpoch(loc[t].extract_epoch) + loc[t].tsince_minutes

\* C2: the calendar year the epoch conversion uses follows the split-year
\* rule: YY < 57 gives 2000+YY, YY >= 57 gives 1900+YY.
C2_SplitYearRule ==
  \A t \in Threads :
    Past(t, {"target", "satrec", "sgp4", "check"}) =>
      loc[t].ep.year = ConventionYear(loc[t].ep.year_short)

\* C3: a non-zero SGP4 error code makes propagate raise ValueError with no
\* state returned; a zero code makes it return exactly the position and
\* velocity SGP4 produced; no failed call returns a state.
C3_ErrorsRaiseSuccessReturnsState ==
  /\ \A t \in Threads :
       (pc[t] = "done" /\ loc[t].res.error_code # -1) =>
         IF loc[t].res.error_code # 0
         THEN loc[t].outcome.kind = "ValueError"
         ELSE /\ loc[t].outcome.kind = "return"
              /\ loc[t].outcome.value = <<loc[t].res.position, loc[t].res.velocity>>
  /\ \A e \in log : e.code # 0 => e.outcome.kind = "ValueError"

C3_Witness ==
  \E t, u \in Threads :
    /\ pc[t] = "done" /\ loc[t].res.error_code > 0
    /\ pc[u] = "done" /\ loc[u].res.error_code = 0

\* C4: outcomes are typed Success / Decayed / NumericalError, and a decayed
\* orbit (SGP4 code 6) never has the outcome type of a numerical failure
\* (SGP4 codes 1..5).
C4_DecayedDistinctFromNumerical ==
  /\ \A e \in log : e.code >= 0 => e.outcome.kind \in {"Success", "Decayed", "NumericalError"}
  /\ \A a, b \in log :
       (a.code = 6 /\ b.code \in 1..5) => a.outcome.kind # b.outcome.kind

\* a line the TLE format rejects: wrong length, wrong checksum digit, or an
\* epoch field that is not a number
Malformed(line) ==
  \/ Len(line) # 69
  \/ line[69] # ChecksumChar(SubSeq(line, 1, 68))
  \/ ~float(slice(line, 18, 32)).ok

\* C5: a malformed line is rejected with MalformedTLE before any value is
\* derived from it: propagate never gets past reading the epoch of such a line.
C5_MalformedRejectedFirst ==
  \A t \in Threads :
    (pc[t] # "idle" /\ Malformed(recs[loc[t].sat].line1)) =>
      \/ pc[t] = "epoch"
      \/ /\ pc[t] = "done"
         /\ loc[t].outcome.kind = "MalformedTLE"
         /\ ~loc[t].extract_epoch.ok

\* C6: no catalog request is issued before the first fetch_tle call; loading
\* the modules issues none.
C6_RequestOnlyOnFetch == requests > 0 => fetchCalls > 0

\* name is str with the surrounding whitespace removed
StrippedOf(str, name) ==
  \E a, b \in 0..Len(str) :
    /\ a + Len(name) + b = Len(str)
    /\ name = SubSeq(str, a + 1, a + Len(name))
    /\ \A k \in 1..a : IsSpace(str[k])
    /\ \A k \in (Len(str) - b + 1)..Len(str) : IsSpace(str[k])
    /\ name # <<>> => (~IsSpace(name[1]) /\ ~IsSpace(name[Len(name)]))

Stripped(str) ==
  CHOOSE n \in {SubSeq(str, a, b) : a \in 1..(Len(str) + 1), b \in 0..Len(str)} :
    StrippedOf(str, n)

\* C7: fetch_tle reads the text as groups of 3 lines; the record built for
\* the group at index i has the stripped line i as name and lines i+1, i+2
\* unmodified; a line count not divisible by 3 raises ValueError with no
\* dictionary; an empty catalog gives an empty dictionary.
C7_GroupsOfThree ==
  fetchCalls > 0 =>
    /\ \A k \in 1..Len(lines) : \A c \in 1..Len(lines[k]) : lines[k][c] # NL
    /\ r = Join(lines) \/ r = Join(lines) \o <<NL>>
    /\ (fpc \in {"loop", "returned"} /\ i >= 3) =>
         /\ StrippedOf(lines[i - 2], s.name)
         /\ s.line1 = lines[i - 1]
         /\ s.line2 = lines[i]
    /\ Len(lines) % 3 # 0 => (fpc = "raised" /\ fresult.kind = "ValueError")
    /\ fpc = "raised" => Len(lines) % 3 # 0
    /\ (r = <<>> /\ fpc # "loop") =>
         (fpc = "returned" /\ fresult.kind = "return" /\ DOMAIN fresult.value = {})

C7_Witness ==
  /\ fpc = "returned"
  /\ Len(lines) = 6
  /\ s.name # lines[4]
  /\ s.name # <<>>
  /\ s.line1 # lines[2]

C9_ReadOnlySharing ==
  /\ [][recs' = recs]_vars
  /\ [](\A t \in Threads :
          pc[t] = "done" =>
            loc[t].outcome = PropagateAlone(lib, recs[loc[t].sat], loc[t].tsince_minutes))

C9_Witness ==
  /\ pc[1] = "check" /\ pc[2] = "check"
  /\ loc[1].sat = loc[2].sat
  /\ loc[1].tsince_minutes # loc[2].tsince_minutes

GroupStarts == {g \in 1..Len(lines) : g % 3 = 1}

\* C10: the returned dictionary has one entry per distinct stripped name; the
\* entry holds line1 and line2 of the last group with that name, and its name
\* field is its key.
C10_LastGroupWins ==
  fpc = "returned" =>
    LET d     == fresult.value
        names == {Stripped(lines[g]) : g \in GroupStarts}
    IN /\ DOMAIN d = names
       /\ Cardinality(DOMAIN d) = Cardinality(names)
       /\ \A key \in DOMAIN d :
            LET last == CHOOSE g \in GroupStarts :
                          /\ Stripped(lines[g]) = key
                          /\ \A h \in GroupStarts : Stripped(lines[h]) = key => h <= g
            IN d[key] = [name |-> key, line1 |-> lines[last + 1], line2 |-> lines[last + 2]]

C10_Witness ==
  /\ fpc = "returned"
  /\ Len(lines) = 6
  /\ Cardinality(DOMAIN fresult.value) = 1
  /\ lines[1] # lines[4]
  /\ lines[2] # lines[5]
====
